---- MODULE Spec2Model ----
(***************************************************************************)
(* Model of the pollmph frontend: the moving-average transform of the      *)
(* dashboard (PulseDashboard.jsx, calculateMovingAverage), the cards and   *)
(* tooltips that classify its output, and the proposition detail view      *)
(* (PropositionDetail.jsx) with its own moving average and chart data.     *)
(*                                                                         *)
(* Numbers.  consensus_value and attention_value are decimal fractions.    *)
(* They are modelled as fixed-point integers counting ten-thousandths      *)
(* (5000 is 0.5, 4996 is 0.4996), so that values with more than three      *)
(* decimal digits exist and toFixed(3) really rounds.  Sums and means are  *)
(* exact; binary floating-point representation error is not modelled.      *)
(* A JavaScript value that may be a number, NaN or null is a tagged        *)
(* record: Num(n), NaN, null.                                              *)
(***************************************************************************)
EXTENDS Integers, Sequences, FiniteSets, TLC

\* ------------------------------------------------------------------------
\* Bounds of the model
\* ------------------------------------------------------------------------
MaxLen == 3        \* longest observation sequence handed to the transform
MaxDate == 3       \* number of distinct calendar days observations fall on
MaxWindow == 3     \* largest window size the transform is called with
MaxCalls == 2      \* number of calls the caller makes on the same input

\* ------------------------------------------------------------------------
\* JavaScript values
\* ------------------------------------------------------------------------
Num(n) == [num |-> n]
NaN == [nan |-> TRUE]
null == [null |-> TRUE]
IsNum(v) == DOMAIN v = {"num"}

\* Completion of a call: a normal return or a thrown exception.
Return(v) == [type |-> "return", value |-> v]
Throw(e) == [type |-> "throw", value |-> e]

Min(a, b) == IF a < b THEN a ELSE b
Max(a, b) == IF a > b THEN a ELSE b
Abs(a) == IF a < 0 THEN 0 - a ELSE a

\* ------------------------------------------------------------------------
\* Dates.  date_generated is a calendar date (a 'YYYY-MM-DD' string in the
\* rows); the k-th day of the model's calendar runs across a year end.
\* ------------------------------------------------------------------------
DateOf(k) ==
    IF k <= 2 THEN [y |-> 2025, m |-> 12, d |-> 29 + k]
              ELSE [y |-> 2026, m |-> 1, d |-> k - 2]

Dates == {DateOf(k) : k \in 1..MaxDate}

\* new Date(s): the time value of a date, strictly increasing in the date.
NewDate(s) == (s.y * 12 + (s.m - 1)) * 31 + s.d

\* toLocaleDateString(locale, { month: 'short', day: 'numeric' }):
\* month and day only, the year is dropped.
ToShortDate(s) == [month |-> s.m, day |-> s.d]

\* ------------------------------------------------------------------------
\* Array helpers
\* ------------------------------------------------------------------------
\* Array.prototype.slice(start, end) on a 0-based array.
Slice(arr, start, end) ==
    LET len == Len(arr)
        k == IF start < 0 THEN Max(len + start, 0) ELSE Min(start, len)
        final == IF end < 0 THEN Max(len + end, 0) ELSE Min(end, len)
    IN SubSeq(arr, k + 1, final)

\* Variant: the running sum is rounded to thousandths at every step.
RoundToThousandth(v) == ((2 * v + 10) \div 20) * 10
RECURSIVE ReduceSumRounded(_, _)
ReduceSumRounded(window, key) ==
    IF window = <<>> THEN 0
    ELSE RoundToThousandth(
             ReduceSumRounded(SubSeq(window, 1, Len(window) - 1), key)
             + RoundToThousandth(window[Len(window)][key]))

\* window.reduce((acc, curr) => acc + curr[key], 0)
RECURSIVE ReduceSum(_, _)
ReduceSum(window, key) ==
    IF window = <<>> THEN 0
    ELSE ReduceSum(SubSeq(window, 1, Len(window) - 1), key)
         + window[Len(window)][key]

\* Variant: the comparator's operands swapped (descending order).
DateCompareReversed(a, b) ==
    NewDate(b.date_generated) - NewDate(a.date_generated)

\* (a, b) => new Date(a.date_generated) - new Date(b.date_generated)
DateCompare(a, b) == NewDate(a.date_generated) - NewDate(b.date_generated)

\* Array.prototype.sort with DateCompare: a stable sort, so rows of equal
\* date keep their relative order.
InsertSorted(s, x) ==
    LET k == Cardinality({i \in 1..Len(s) : DateCompare(s[i], x) <= 0})
    IN SubSeq(s, 1, k) \o <<x>> \o SubSeq(s, k + 1, Len(s))

\* Variant: the defensive sort left out.
SortByDateOmitted(s) == s

RECURSIVE SortByDate(_)
SortByDate(s) ==
    IF s = <<>> THEN <<>>
    ELSE InsertSorted(SortByDate(SubSeq(s, 1, Len(s) - 1)), s[Len(s)])

\* ------------------------------------------------------------------------
\* Number((sum / windowSize).toFixed(3))
\* ------------------------------------------------------------------------
Thousandth == 10   \* 0.001 in ten-thousandths: the grain of toFixed(3)

\* Variant: the mean is clamped to [0, 1] before it is returned.
MeanToFixed3Clamped(sum, windowSize) ==
    IF windowSize = 0
    THEN IF sum = 0 THEN NaN ELSE [inf |-> sum > 0]
    ELSE LET neg == (sum < 0) # (windowSize < 0)
             n == (2 * Abs(sum) + Thousandth * Abs(windowSize))
                    \div (2 * Thousandth * Abs(windowSize))
         IN Num(IF neg THEN 0 ELSE Min(n * Thousandth, 1000 * Thousandth))

\* sum / windowSize is NaN for 0/0; toFixed rounds the magnitude to the
\* nearest thousandth, the larger one on a tie, and keeps the sign.
MeanToFixed3(sum, windowSize) ==
    IF windowSize = 0
    THEN IF sum = 0 THEN NaN ELSE [inf |-> sum > 0]
    ELSE LET neg == (sum < 0) # (windowSize < 0)
             n == (2 * Abs(sum) + Thousandth * Abs(windowSize))
                    \div (2 * Thousandth * Abs(windowSize))
         IN Num((IF neg THEN 0 - n ELSE n) * Thousandth)

\* ------------------------------------------------------------------------
\* PulseDashboard.jsx: calculateMovingAverage(data, windowSize = 7)
\* ------------------------------------------------------------------------
\* Variant: the cold start lasts one point longer.
IsColdStartOffByOne(idx, windowSize) == idx < windowSize

\* idx < windowSize - 1: the point has fewer than windowSize predecessors.
IsColdStart(idx, windowSize) == idx < windowSize - 1

\* Variant: the under-filled window yields null instead of the raw value.
BasePointNulled(val) ==
    [shortDate |-> ToShortDate(val.date_generated),
     ma_consensus |-> null,
     ma_attention |-> null] @@ val

\* Variant: the point is built from named fields instead of spreading val.
BasePointPicked(val) ==
    [id |-> val.id,
     proposition_id |-> val.proposition_id,
     date_generated |-> val.date_generated,
     consensus_value |-> val.consensus_value,
     attention_value |-> val.attention_value,
     shortDate |-> ToShortDate(val.date_generated),
     ma_consensus |-> Num(val.consensus_value),
     ma_attention |-> Num(val.attention_value)]

\* base = { ...val, shortDate, ma_consensus: val.consensus_value,
\*          ma_attention: val.attention_value }
BasePoint(val) ==
    [shortDate |-> ToShortDate(val.date_generated),
     ma_consensus |-> Num(val.consensus_value),
     ma_attention |-> Num(val.attention_value)] @@ val

\* { ...base, ma_consensus: ..., ma_attention: ... } over the trailing window
AveragedPoint(base, window, windowSize) ==
    LET sumC == ReduceSum(window, "consensus_value")
        sumA == ReduceSum(window, "attention_value")
    IN [ma_consensus |-> MeanToFixed3(sumC, windowSize),
        ma_attention |-> MeanToFixed3(sumA, windowSize)] @@ base

MovingAveragePoints(data, windowSize) ==
    LET sortedData == SortByDate(data)
        point(idx) ==
            LET base == BasePoint(sortedData[idx + 1])
                window == Slice(sortedData, idx - windowSize + 1, idx + 1)
            IN IF IsColdStart(idx, windowSize) THEN base
               ELSE AveragedPoint(base, window, windowSize)
    IN [i \in 1..Len(sortedData) |-> point(i - 1)]

\* Variant: data.sort(...) instead of [...data].sort(...), which sorts the
\* caller's array in place.
DataAfterCallSortedInPlace(data) == SortByDate(data)

\* The caller's array after the call: [...data] is a copy, sort reorders
\* the copy, and map builds new objects from spreads of the rows.
DataAfterCall(data) == data

\* Variant: the first row is read before the map, a TypeError on [].
calculateMovingAverageEager(data, windowSize) ==
    IF data = <<>> THEN Throw("TypeError")
    ELSE Return(MovingAveragePoints(data, windowSize))

calculateMovingAverage(data, windowSize) ==
    Return(MovingAveragePoints(data, windowSize))

\* ------------------------------------------------------------------------
\* Inputs of the transform
\* ------------------------------------------------------------------------
ConsensusValues == {1234, 4995, 9000}
AttentionValues == {3000, 7777}
Windows == (0 - 1)..MaxWindow

\* A sentiments row as delivered by the data source; id is the row's
\* position in the delivered sequence, rationale_consensus a free text.
Observation(id, date, c, a) ==
    [id |-> id, proposition_id |-> "p1", date_generated |-> date,
     consensus_value |-> c, attention_value |-> a,
     rationale_consensus |-> IF 2 * c >= 10000 THEN "agree" ELSE "disagree"]

ObservationSeqs ==
    UNION {{[i \in 1..n |-> Observation(i, d[i], c[i], a[i])] :
              d \in [1..n -> Dates],
              c \in [1..n -> ConsensusValues],
              a \in [1..n -> AttentionValues]} : n \in 0..MaxLen}

\* ------------------------------------------------------------------------
\* The data source: the propositions and sentiments tables
\* ------------------------------------------------------------------------
MaxRows == 7       \* most sentiments rows stored for one proposition
MaxStored == 32    \* longest stored history of one proposition
MaxFetches == 2    \* runs of the detail view's fetchData in one visit

RowValues == {4996, 9000}

One == 1000 * Thousandth      \* 1.0
Half == 500 * Thousandth      \* 0.5

Range(seq) == {seq[i] : i \in 1..Len(seq)}

\* The stored sentiments: proposition p1 has one row per day for the first
\* Len(cs) days, proposition p2 a row on the first day when withP2.
SentimentsRows(cs, withP2) ==
    LET p1 == [k \in 1..Len(cs) |-> Observation(k, DateOf(k), cs[k], 3000)]
        p2 == [id |-> Len(cs) + 1, proposition_id |-> "p2",
               date_generated |-> DateOf(1), consensus_value |-> 9000,
               attention_value |-> 7777, rationale_consensus |-> "agree"]
    IN IF withP2 THEN p1 \o <<p2>> ELSE p1

\* The stored rows followed by a row of the demonstration proposition.
WithDemoRow(rows) ==
    rows \o <<[id |-> Len(rows) + 1, proposition_id |-> "demo-prop",
               date_generated |-> DateOf(1), consensus_value |-> 4996,
               attention_value |-> 3000, rationale_consensus |-> "disagree"]>>

SentimentsTables ==
    LET plain == UNION {{SentimentsRows(cs, w) :
                            cs \in [1..n -> RowValues], w \in BOOLEAN} :
                          n \in 0..MaxRows}
    IN plain \cup {WithDemoRow(rows) : rows \in plain}

\* Table propositions: p1 always, p2 missing, present, or present with an
\* empty text (the column is text not null).
PropositionsTables ==
    {<<[proposition_id |-> "p1", proposition_text |-> "text of p1"]>>,
     <<[proposition_id |-> "p1", proposition_text |-> "text of p1"],
       [proposition_id |-> "p2", proposition_text |-> "text of p2"]>>,
     <<[proposition_id |-> "p1", proposition_text |-> "text of p1"],
       [proposition_id |-> "p2", proposition_text |-> ""]>>}

\* .order('date_generated', { ascending: true })
OrderByDate(rows) == SortByDate(rows)

\* .limit(n)
Limit(rows, n) == SubSeq(rows, 1, Min(n, Len(rows)))

\* .eq('proposition_id', id) / .neq('proposition_id', id)
EqProposition(rows, id) == SelectSeq(rows, LAMBDA r : r.proposition_id = id)
NeqProposition(rows, id) == SelectSeq(rows, LAMBDA r : r.proposition_id # id)

\* ------------------------------------------------------------------------
\* JavaScript comparison  v >= bound  for a number bound: null converts to
\* 0, NaN and undefined compare false; Frac(n, d) is the number n/d, d > 0.
\* ------------------------------------------------------------------------
Frac(n, d) == [num |-> n, den |-> d]
undefined == [undefined |-> TRUE]

JsGE(v, bound) ==
    CASE DOMAIN v = {"num"} -> v.num >= bound
      [] DOMAIN v = {"num", "den"} -> v.num >= bound * v.den
      [] v = null -> 0 >= bound
      [] OTHER -> FALSE

\* ------------------------------------------------------------------------
\* PulseDashboard.jsx: fetchData, PropositionCard, CustomTooltip
\* ------------------------------------------------------------------------
DashboardWindow == 7

\* propsData.reduce((acc, curr) => { acc[id] = text; return acc }, {})
PropositionMap(propsData) ==
    [id \in {r.proposition_id : r \in Range(propsData)} |->
        LET last == CHOOSE i \in 1..Len(propsData) :
                /\ propsData[i].proposition_id = id
                /\ \A j \in (i + 1)..Len(propsData) :
                       propsData[j].proposition_id # id
        IN propsData[last].proposition_text]

\* Keys of grouped, in order of first appearance.
RECURSIVE GroupIds(_)
GroupIds(rows) ==
    IF rows = <<>> THEN <<>>
    ELSE LET prev == GroupIds(SubSeq(rows, 1, Len(rows) - 1))
             id == rows[Len(rows)].proposition_id
         IN IF id \in Range(prev) THEN prev ELSE Append(prev, id)

\* Variant: every row is pushed to one array shared by all the keys.
GroupOfShared(sentimentsData, id) == sentimentsData

\* Variant: acc[id] = [curr] on every row, which keeps the last row only.
GroupOfLastOnly(sentimentsData, id) ==
    LET rows == SelectSeq(sentimentsData, LAMBDA r : r.proposition_id = id)
    IN SubSeq(rows, Len(rows), Len(rows))

\* grouped[id]: the rows pushed under the key id, in the order fetched.
GroupOf(sentimentsData, id) ==
    SelectSeq(sentimentsData, LAMBDA r : r.proposition_id = id)

\* Object.entries(grouped).map(([id, evaluations]) => ...)
FormattedPropositions(sentimentsData, propositionMap) ==
    LET ids == GroupIds(sentimentsData)
    IN [k \in 1..Len(ids) |->
          LET id == ids[k]
              evaluations == SortByDate(GroupOf(sentimentsData, id))
              text == IF id \in DOMAIN propositionMap /\ propositionMap[id] # ""
                      THEN propositionMap[id] ELSE id
          IN [id |-> id, proposition_text |-> text,
              evaluations |-> calculateMovingAverage(evaluations, DashboardWindow)]]

\* PropositionCard: isMajority = latest.ma_consensus >= 0.5
CardIsMajority(proposition) ==
    LET evaluations == proposition.evaluations
        latest == evaluations[Len(evaluations)]
    IN JsGE(latest.ma_consensus, Half)

\* CustomTooltip over the hovered point: isMajority = maConsensus >= 0.5
DashboardTooltipIsMajority(pt) == JsGE(pt.ma_consensus, Half)

\* ------------------------------------------------------------------------
\* PropositionDetail.jsx: calculateMovingAverage(data, key), chartData,
\* isMajority, CustomTooltip
\* ------------------------------------------------------------------------
QueryLimit == 30
DetailColdStart == 6
DetailWindow == 7

DetailMovingAverage(rows, key) ==
    [i \in 1..Len(rows) |->
        LET index == i - 1
        IN IF index < DetailColdStart THEN null
           ELSE Frac(ReduceSum(Slice(rows, index - DetailColdStart, index + 1), key),
                     DetailWindow)]

\* v * 100 for a JavaScript number v
Times100(v) ==
    CASE DOMAIN v = {"num"} -> Num(v.num * 100)
      [] DOMAIN v = {"num", "den"} -> Frac(v.num * 100, v.den)
      [] v = null -> Num(0)
      [] OTHER -> NaN

ChartData(rows) ==
    [i \in 1..Len(rows) |->
        LET index == i - 1
            s == rows[i]
        IN [date |-> ToShortDate(s.date_generated),
            consensus |-> Num(s.consensus_value * 100),
            attention |-> Num(s.attention_value * 100),
            consensusMA |-> IF index >= DetailColdStart
                THEN Times100(DetailMovingAverage(rows, "consensus_value")[i])
                ELSE null,
            attentionMA |-> IF index >= DetailColdStart
                THEN Times100(DetailMovingAverage(rows, "attention_value")[i])
                ELSE null]]

\* consensusMA = chartData[chartData.length - 1]?.consensusMA;
\* isMajority = consensusMA >= 50
DetailIsMajority(rows) ==
    LET chartData == ChartData(rows)
        consensusMA == IF chartData = <<>> THEN undefined
                       ELSE chartData[Len(chartData)].consensusMA
    IN JsGE(consensusMA, 50 * One)

\* CustomTooltip over the hovered chart point: maConsensus >= 50
DetailTooltipIsMajority(cd) == JsGE(cd.consensusMA, 50 * One)

\* ------------------------------------------------------------------------
\* State
\* ------------------------------------------------------------------------
VARIABLES
    data,               \* the caller's observation sequence
    windowSize,         \* the window the caller passes
    result,             \* completion of the call, or NotCalled
    calls,              \* number of calls made so far
    supabase,           \* TRUE: the shared client exists, FALSE: it is null
    propositionsTable,  \* rows of table propositions
    sentimentsTable,    \* rows of table sentiments
    route,              \* the view that is mounted
    id,                 \* useParams().id of the detail route
    dashPc,             \* where the dashboard's fetchData stands
    propositionMap,     \* fetchData's local propositionMap
    propositions,       \* PulseDashboard state
    dashLoading,        \* PulseDashboard state loading
    error,              \* PulseDashboard state
    fetchId,            \* per run of the detail view's fetchData: its id
    detailPc,           \* per run: where that fetchData stands
    propData,           \* per run: fetchData's local propData
    proposition,        \* PropositionDetail state
    sentiments,         \* PropositionDetail state
    loading             \* PropositionDetail state

coreVars == <<data, windowSize, result, calls>>
sourceVars == <<supabase, propositionsTable, sentimentsTable>>
dashVars == <<dashPc, propositionMap, propositions, dashLoading, error>>
detailVars == <<id, fetchId, detailPc, propData, proposition, sentiments, loading>>
viewVars == <<sourceVars, route, dashVars, detailVars>>
vars == <<coreVars, viewVars>>

NotCalled == [type |-> "none"]

\* useState initial values of both components, nothing mounted.
Unmounted ==
    /\ route = "none"
    /\ id = "p1"
    /\ dashPc = "idle"
    /\ propositionMap = <<>>
    /\ propositions = <<>>
    /\ dashLoading = TRUE
    /\ error = null
    /\ fetchId = <<>>
    /\ detailPc = <<>>
    /\ propData = <<>>
    /\ proposition = null
    /\ sentiments = <<>>
    /\ loading = TRUE

Init ==
    /\ data \in ObservationSeqs
    /\ windowSize \in Windows
    /\ result = NotCalled
    /\ calls = 0
    /\ supabase = TRUE
    /\ propositionsTable = <<>>
    /\ sentimentsTable = <<>>
    /\ Unmounted

\* The caller invokes calculateMovingAverage(data, windowSize).
Smooth ==
    /\ calls < MaxCalls
    /\ result' = calculateMovingAverage(data, windowSize)
    /\ data' = DataAfterCall(data)
    /\ calls' = calls + 1
    /\ UNCHANGED <<windowSize, viewVars>>

Next == Smooth

Spec == Init /\ [][Next]_vars

\* ------------------------------------------------------------------------
\* The transform on values outside [0, 1]
\* ------------------------------------------------------------------------
WideConsensusValues == {0 - 1505, 4995, 12345}
WideAttentionValues == {0 - 20, 10001}

WideObservationSeqs ==
    UNION {{[i \in 1..n |-> Observation(i, d[i], c[i], a[i])] :
              d \in [1..n -> Dates],
              c \in [1..n -> WideConsensusValues],
              a \in [1..n -> WideAttentionValues]} : n \in 0..MaxLen}

WideInit ==
    /\ data \in WideObservationSeqs
    /\ windowSize \in 1..MaxWindow
    /\ result = NotCalled
    /\ calls = 0
    /\ supabase = TRUE
    /\ propositionsTable = <<>>
    /\ sentimentsTable = <<>>
    /\ Unmounted

WideSpec == WideInit /\ [][Next]_vars

\* ------------------------------------------------------------------------
\* The two views
\* ------------------------------------------------------------------------
ViewInit ==
    /\ data = <<>>
    /\ windowSize = DashboardWindow
    /\ result = NotCalled
    /\ calls = 0
    /\ supabase \in BOOLEAN
    /\ propositionsTable \in PropositionsTables
    /\ sentimentsTable \in SentimentsTables
    /\ Unmounted

\* PulseDashboard mounts; its effect runs fetchData up to the first await.
MountDashboard ==
    /\ route = "none"
    /\ route' = "dashboard"
    /\ IF ~supabase
       THEN /\ error' = [message |-> "Supabase client not initialized. Check environment variables."]
            /\ dashLoading' = FALSE
            /\ dashPc' = "done"
       ELSE /\ dashPc' = "awaitPropositions"
            /\ UNCHANGED <<error, dashLoading>>
    /\ UNCHANGED <<coreVars, sourceVars, propositionMap, propositions, detailVars>>

\* Variant: the catch block without the finally block.
DashboardCatchWithoutFinally ==
    /\ error' = [message |-> "query failed"]
    /\ dashPc' = "done"
    /\ UNCHANGED <<propositionMap, propositions, dashLoading>>

\* catch (err) { setError(err.message) } finally { setLoading(false) }
DashboardCatch ==
    /\ error' = [message |-> "query failed"]
    /\ dashLoading' = FALSE
    /\ dashPc' = "done"
    /\ UNCHANGED <<propositionMap, propositions>>

\* The propositions query settles.
DashboardPropositionsResponse ==
    /\ dashPc = "awaitPropositions"
    /\ \E propsError \in BOOLEAN :
          IF propsError THEN DashboardCatch
          ELSE /\ propositionMap' = PropositionMap(propositionsTable)
               /\ dashPc' = "awaitSentiments"
               /\ UNCHANGED <<propositions, dashLoading, error>>
    /\ UNCHANGED <<coreVars, sourceVars, route, detailVars>>

\* The sentiments query settles; the rest of fetchData runs to its end:
\* either sentimentsError is set and thrown, or the data is processed.
DashboardSentimentsResponse ==
    /\ dashPc = "awaitSentiments"
    /\ \/ DashboardCatch
       \/ LET sentimentsData ==
                  OrderByDate(NeqProposition(sentimentsTable, "demo-prop"))
              formatted == FormattedPropositions(sentimentsData, propositionMap)
          IN IF sentimentsData = <<>>
             THEN /\ propositions' = <<>>
                  /\ dashLoading' = FALSE
                  /\ dashPc' = "done"
                  /\ UNCHANGED <<propositionMap, error>>
             ELSE IF \E k \in 1..Len(formatted) : formatted[k].evaluations.type = "throw"
             THEN DashboardCatch
             ELSE /\ propositions' =
                      [k \in 1..Len(formatted) |->
                          [formatted[k] EXCEPT !.evaluations = @.value]]
                  /\ dashLoading' = FALSE
                  /\ dashPc' = "done"
                  /\ UNCHANGED <<propositionMap, error>>
    /\ UNCHANGED <<coreVars, sourceVars, route, detailVars>>

\* The effect of PropositionDetail runs fetchData, a closure over the id
\* of that render, up to its first await: setLoading(true), then
\* supabase.from(...), which throws when the client is null, so that
\* fetchData rejects and runs no further.
StartFetch(routeId) ==
    /\ loading' = TRUE
    /\ fetchId' = Append(fetchId, routeId)
    /\ detailPc' = Append(detailPc, IF supabase THEN "awaitProposition"
                                                ELSE "rejected")
    /\ propData' = Append(propData, null)

\* PropositionDetail mounts at /proposition/:id.
MountDetail ==
    /\ route = "none"
    /\ route' = "detail"
    /\ StartFetch(id)
    /\ UNCHANGED <<coreVars, sourceVars, dashVars, id, proposition, sentiments>>

\* The route's id changes while the view stays mounted: the effect, which
\* depends on [id], runs again; earlier runs are not cancelled.
ChangeRoute ==
    /\ route = "detail"
    /\ Len(detailPc) < MaxFetches
    /\ \E newId \in {"p1", "p2"} :
          /\ newId # id
          /\ id' = newId
          /\ StartFetch(newId)
    /\ UNCHANGED <<coreVars, sourceVars, route, dashVars, proposition, sentiments>>

\* The propositions query (.eq(id).single()) of run k settles: an error
\* when the request fails or when not exactly one row matches.
DetailPropositionResponse ==
    \E k \in 1..Len(detailPc) :
       /\ detailPc[k] = "awaitProposition"
       /\ \E failed \in BOOLEAN :
             LET rows == EqProposition(propositionsTable, fetchId[k])
             IN IF failed \/ Len(rows) # 1
                THEN /\ loading' = FALSE
                     /\ detailPc' = [detailPc EXCEPT ![k] = "failed"]
                     /\ UNCHANGED propData
                ELSE /\ propData' = [propData EXCEPT ![k] = rows[1]]
                     /\ detailPc' = [detailPc EXCEPT ![k] = "awaitSentiments"]
                     /\ UNCHANGED loading
       /\ UNCHANGED <<coreVars, sourceVars, route, dashVars, id, fetchId,
                      proposition, sentiments>>

\* The sentiments query of run k settles.
DetailSentimentsResponse ==
    \E k \in 1..Len(detailPc) :
       /\ detailPc[k] = "awaitSentiments"
       /\ \E sentError \in BOOLEAN :
             LET sentData ==
                     Limit(OrderByDate(EqProposition(sentimentsTable, fetchId[k])),
                           QueryLimit)
             IN IF sentError
                THEN /\ loading' = FALSE
                     /\ detailPc' = [detailPc EXCEPT ![k] = "failed"]
                     /\ UNCHANGED <<proposition, sentiments>>
                ELSE /\ proposition' = propData[k]
                     /\ sentiments' = sentData
                     /\ loading' = FALSE
                     /\ detailPc' = [detailPc EXCEPT ![k] = "done"]
       /\ UNCHANGED <<coreVars, sourceVars, route, dashVars, id, fetchId, propData>>

ViewNext ==
    \/ MountDashboard
    \/ DashboardPropositionsResponse
    \/ DashboardSentimentsResponse
    \/ MountDetail
    \/ DetailPropositionResponse
    \/ DetailSentimentsResponse

ViewSpec == ViewInit /\ [][ViewNext]_vars

\* ------------------------------------------------------------------------
\* The dashboard alone, its awaited queries settling sooner or later
\* ------------------------------------------------------------------------
DashboardNext ==
    \/ MountDashboard
    \/ DashboardPropositionsResponse
    \/ DashboardSentimentsResponse

DashboardLiveSpec ==
    /\ ViewInit
    /\ [][DashboardNext]_vars
    /\ WF_vars(DashboardPropositionsResponse)
    /\ WF_vars(DashboardSentimentsResponse)

\* ------------------------------------------------------------------------
\* The detail view over a long stored history
\* ------------------------------------------------------------------------
\* n daily rows of p1, stored newest first.
HistoryRows(n) ==
    [k \in 1..n |->
        Observation(n + 1 - k, DateOf(n + 1 - k),
                    IF k % 2 = 0 THEN 4996 ELSE 9000, 3000)]

HistoryInit ==
    /\ data = <<>>
    /\ windowSize = DashboardWindow
    /\ result = NotCalled
    /\ calls = 0
    /\ supabase = TRUE
    /\ propositionsTable \in PropositionsTables
    /\ sentimentsTable \in {HistoryRows(n) : n \in 0..MaxStored}
    /\ Unmounted

DetailNext ==
    \/ MountDetail
    \/ DetailPropositionResponse
    \/ DetailSentimentsResponse

HistorySpec == HistoryInit /\ [][DetailNext]_vars

\* ------------------------------------------------------------------------
\* The detail view while the route's id changes
\* ------------------------------------------------------------------------
RaceInit ==
    /\ data = <<>>
    /\ windowSize = DashboardWindow
    /\ result = NotCalled
    /\ calls = 0
    /\ supabase = TRUE
    /\ propositionsTable \in PropositionsTables
    /\ sentimentsTable \in
           {SentimentsRows(cs, TRUE) : cs \in UNION {[1..n -> RowValues] : n \in 0..2}}
    /\ Unmounted

RaceNext ==
    \/ MountDetail
    \/ ChangeRoute
    \/ DetailPropositionResponse
    \/ DetailSentimentsResponse

RaceSpec == RaceInit /\ [][RaceNext]_vars

\* ------------------------------------------------------------------------
\* Properties of calculateMovingAverage
\* ------------------------------------------------------------------------
Called == result # NotCalled

\* The input observation an output point was derived from (ids are the
\* positions in data).
InputOf(pt) == data[pt.id]

\* Calendar order of two dates, by year, then month, then day.
DateLE(a, b) ==
    \/ a.y < b.y
    \/ a.y = b.y /\ a.m < b.m
    \/ a.y = b.y /\ a.m = b.m /\ a.d <= b.d

DistinctDates(seq) ==
    \A i, j \in 1..Len(seq) :
        i # j => seq[i].date_generated # seq[j].date_generated

PermutationsOf(seq) ==
    IF seq = <<>> THEN {<<>>}
    ELSE {[i \in 1..Len(seq) |-> seq[f[i]]] : f \in Permutations(1..Len(seq))}

RECURSIVE SumOver(_, _)
SumOver(S, f) ==
    IF S = {} THEN 0
    ELSE LET x == CHOOSE y \in S : TRUE
         IN f[x] + SumOver(S \ {x}, f)

\* r is num/den (den > 0) rounded to the nearest thousandth, a tie going
\* away from zero.
IsNearestThousandth(r, num, den) ==
    /\ r % Thousandth = 0
    /\ IF num >= 0
       THEN /\ (2 * r - Thousandth) * den <= 2 * num
            /\ 2 * num < (2 * r + Thousandth) * den
       ELSE /\ (2 * r - Thousandth) * den < 2 * num
            /\ 2 * num <= (2 * r + Thousandth) * den

\* Sum of the raw values of the windowSize inputs that end at sorted
\* position i (1-based).
WindowSum(pts, i, key) ==
    SumOver((i - windowSize + 1)..i, [j \in 1..Len(pts) |-> InputOf(pts[j])[key]])

\* C1: for a window >= 1 the call returns exactly one point per input
\* observation, Len(data) points in all, in ascending date order, whatever
\* the order of the input.
C1_LengthAndOrder ==
    (Called /\ windowSize >= 1) =>
        /\ result.type = "return"
        /\ Len(result.value) = Len(data)
        /\ {result.value[i].id : i \in 1..Len(result.value)} = 1..Len(data)
        /\ \A i, j \in 1..Len(result.value) :
               i < j => DateLE(result.value[i].date_generated,
                               result.value[j].date_generated)

C1_Witness ==
    /\ Called /\ windowSize >= 1 /\ Len(data) >= 2
    /\ \E i, j \in 1..Len(data) :
           i < j /\ ~DateLE(data[i].date_generated, data[j].date_generated)
    /\ result.value[1].id # 1

\* C2: every point at sorted index i < windowSize - 1 has the raw consensus
\* and attention of its observation as smoothed values, unrounded.
C2_ColdStartPassthrough ==
    (Called /\ windowSize >= 1) =>
        \A i \in 1..Len(result.value) :
            (i - 1 < windowSize - 1) =>
                /\ result.value[i].ma_consensus
                       = Num(InputOf(result.value[i]).consensus_value)
                /\ result.value[i].ma_attention
                       = Num(InputOf(result.value[i]).attention_value)

C2_Witness ==
    /\ Called /\ windowSize >= 2
    /\ \E i \in 1..Len(result.value) :
           /\ i - 1 < windowSize - 1
           /\ InputOf(result.value[i]).consensus_value % Thousandth # 0
           /\ result.value[i].ma_consensus.num % Thousandth # 0

\* C3: every point at sorted index i >= windowSize - 1 has as smoothed value
\* the mean of the windowSize raw values ending at i, the exact sum divided
\* by windowSize and then rounded once to three decimal digits.
C3_WindowMeanRounded ==
    (Called /\ windowSize >= 1) =>
        \A i \in 1..Len(result.value) :
            (i - 1 >= windowSize - 1) =>
                /\ IsNum(result.value[i].ma_consensus)
                /\ IsNearestThousandth(result.value[i].ma_consensus.num,
                       WindowSum(result.value, i, "consensus_value"), windowSize)
                /\ IsNum(result.value[i].ma_attention)
                /\ IsNearestThousandth(result.value[i].ma_attention.num,
                       WindowSum(result.value, i, "attention_value"), windowSize)

C3_Witness ==
    /\ Called /\ windowSize >= 2
    /\ \E i \in 1..Len(result.value) :
           /\ i - 1 >= windowSize - 1
           /\ result.value[i].ma_consensus.num * windowSize
                  # WindowSum(result.value, i, "consensus_value")

\* C4 as stated: with window 1 every smoothed value equals the raw value,
\* also for raw values with more than three decimal digits.
C4_IdentityForAllValues ==
    (Called /\ windowSize = 1) =>
        \A i \in 1..Len(result.value) :
            /\ result.value[i].ma_consensus
                   = Num(InputOf(result.value[i]).consensus_value)
            /\ result.value[i].ma_attention
                   = Num(InputOf(result.value[i]).attention_value)

\* C4 (amended): with window 1 every smoothed value is the raw value
\* rounded to three decimal digits, so it equals the raw value exactly when
\* the raw value has at most three decimal digits.
C4_IdentityUpToRounding ==
    (Called /\ windowSize = 1) =>
        \A i \in 1..Len(result.value) :
            LET c == InputOf(result.value[i]).consensus_value
                a == InputOf(result.value[i]).attention_value
            IN /\ IsNum(result.value[i].ma_consensus)
               /\ IsNearestThousandth(result.value[i].ma_consensus.num, c, 1)
               /\ (result.value[i].ma_consensus = Num(c)) <=> (c % Thousandth = 0)
               /\ IsNum(result.value[i].ma_attention)
               /\ IsNearestThousandth(result.value[i].ma_attention.num, a, 1)
               /\ (result.value[i].ma_attention = Num(a)) <=> (a % Thousandth = 0)

C4_Witness ==
    /\ Called /\ windowSize = 1
    /\ \E i \in 1..Len(result.value) :
           /\ InputOf(result.value[i]).consensus_value % Thousandth = 0
           /\ result.value[i].ma_consensus
                  = Num(InputOf(result.value[i]).consensus_value)
    /\ \E i \in 1..Len(result.value) :
           /\ InputOf(result.value[i]).consensus_value % Thousandth # 0
           /\ result.value[i].ma_consensus
                  # Num(InputOf(result.value[i]).consensus_value)

\* C5: a call with a window of 0 or less ends in a failure and yields no
\* points.
C5_InvalidWindowFails ==
    (Called /\ windowSize < 1) => result.type = "throw"

\* C7: when the dates are pairwise distinct and the window is >= 1, every
\* permutation of the input gives the same output sequence.
C7_PermutationInvariant ==
    (Called /\ windowSize >= 1 /\ DistinctDates(data)) =>
        \A p \in PermutationsOf(data) :
            calculateMovingAverage(p, windowSize) = result

C7_Witness ==
    /\ Called /\ windowSize >= 2 /\ Len(data) >= windowSize
    /\ DistinctDates(data)
    /\ \E i, j \in 1..Len(data) :
           i < j /\ ~DateLE(data[i].date_generated, data[j].date_generated)

\* C8 as stated: a point has every field of its observation, unchanged, and
\* besides them only the two smoothed fields.
C8_OnlySmoothedFieldsAdded ==
    (Called /\ windowSize >= 1) =>
        \A i \in 1..Len(result.value) :
            LET pt == result.value[i]
            IN /\ DOMAIN pt = DOMAIN InputOf(pt) \cup {"ma_consensus", "ma_attention"}
               /\ \A f \in DOMAIN InputOf(pt) : pt[f] = InputOf(pt)[f]

\* C8 (amended): a point has every field of its observation, unchanged, and
\* besides them exactly three fields: shortDate and the two smoothed fields.
C8_FieldsKeptAndThreeAdded ==
    (Called /\ windowSize >= 1) =>
        \A i \in 1..Len(result.value) :
            LET pt == result.value[i]
            IN /\ DOMAIN pt = DOMAIN InputOf(pt)
                                \cup {"shortDate", "ma_consensus", "ma_attention"}
               /\ \A f \in DOMAIN InputOf(pt) : pt[f] = InputOf(pt)[f]
               /\ pt.shortDate = [month |-> pt.date_generated.m,
                                  day |-> pt.date_generated.d]

C8_Witness ==
    /\ Called /\ windowSize >= 1 /\ Len(data) >= windowSize
    /\ \E i \in 1..Len(result.value) :
           /\ i >= windowSize
           /\ "rationale_consensus" \in DOMAIN result.value[i]
           /\ "shortDate" \in DOMAIN result.value[i]

\* C10: an empty observation sequence gives an empty output and no error,
\* for every window >= 1.
C10_EmptyInEmptyOut ==
    (Called /\ windowSize >= 1 /\ data = <<>>) => result = Return(<<>>)

C10_Witness ==
    Called /\ windowSize >= 1 /\ data = <<>> /\ result.type = "return"

\* ------------------------------------------------------------------------
\* Properties of what the views hand to the chart layer
\* ------------------------------------------------------------------------
\* The dashboard shows its cards; the detail view shows its chart.
DashboardRendered == route = "dashboard" /\ ~dashLoading /\ error = null
DetailRendered == route = "detail" /\ ~loading /\ proposition # null

\* The stored observations of one proposition in date order.
StoredRows(pid) == OrderByDate(EqProposition(sentimentsTable, pid))

\* The smoothed consensus of the i-th of rows as section 4.1 of the
\* specification defines it for the 7-day window: the raw value during the
\* cold start, the mean of the last 7 raw values rounded to 3 digits after.
SmoothedConsensusOf(rows, i) ==
    IF i - 1 < DashboardWindow - 1 THEN rows[i].consensus_value
    ELSE CHOOSE r \in {Thousandth * q : q \in 0..1000} :
             IsNearestThousandth(r,
                 SumOver((i - DashboardWindow + 1)..i,
                         [j \in 1..Len(rows) |-> rows[j].consensus_value]),
                 DashboardWindow)

\* C6: every element either view hands to the chart has both moving-average
\* fields present and non-null, the first points included.
C6_SmoothedNeverNull ==
    /\ DashboardRendered =>
           \A k \in 1..Len(propositions) :
               \A i \in 1..Len(propositions[k].evaluations) :
                   /\ "ma_consensus" \in DOMAIN propositions[k].evaluations[i]
                   /\ IsNum(propositions[k].evaluations[i].ma_consensus)
                   /\ "ma_attention" \in DOMAIN propositions[k].evaluations[i]
                   /\ IsNum(propositions[k].evaluations[i].ma_attention)
    /\ DetailRendered =>
           \A i \in 1..Len(sentiments) :
               /\ ChartData(sentiments)[i].consensusMA # null
               /\ ChartData(sentiments)[i].attentionMA # null

\* C9: wherever a view classifies a point, the point is majority exactly
\* when its smoothed consensus is >= 0.5, for sequences of any length.
C9_MajorityIffSmoothedAtLeastHalf ==
    /\ DashboardRendered =>
           \A k \in 1..Len(propositions) :
               LET p == propositions[k]
                   rows == StoredRows(p.id)
               IN /\ CardIsMajority(p)
                         <=> (SmoothedConsensusOf(rows, Len(rows)) >= Half)
                  /\ \A i \in 1..Len(p.evaluations) :
                         DashboardTooltipIsMajority(p.evaluations[i])
                             <=> (SmoothedConsensusOf(rows, i) >= Half)
    /\ DetailRendered =>
           /\ sentiments # <<>> =>
                  (DetailIsMajority(sentiments)
                      <=> (SmoothedConsensusOf(sentiments, Len(sentiments)) >= Half))
           /\ \A i \in 1..Len(sentiments) :
                  DetailTooltipIsMajority(ChartData(sentiments)[i])
                      <=> (SmoothedConsensusOf(sentiments, i) >= Half)

FetchedRows == SelectSeq(sentimentsTable, LAMBDA r : r.proposition_id # "demo-prop")

\* The stored observations of proposition pid alone, in date order.
OwnRows(pid) ==
    SortByDate(SelectSeq(sentimentsTable, LAMBDA r : r.proposition_id = pid))

\* C12: the evaluations of a proposition are the transform of its own
\* observations and the window and of nothing else, so neither the rows of
\* another proposition nor the order of processing can change them.
C12_OwnObservationsOnly ==
    DashboardRendered =>
        \A k \in 1..Len(propositions) :
            Return(propositions[k].evaluations)
                = calculateMovingAverage(OwnRows(propositions[k].id), DashboardWindow)

C12_Witness ==
    /\ DashboardRendered
    /\ Len(propositions) >= 2
    /\ \E k \in 1..Len(propositions) :
           Len(propositions[k].evaluations) >= DashboardWindow
    /\ \E k, l \in 1..Len(propositions) :
           propositions[k].evaluations[1].consensus_value
               # propositions[l].evaluations[1].consensus_value

\* ------------------------------------------------------------------------
\* Values outside [0, 1]
\* ------------------------------------------------------------------------
InUnitRange(v) == 0 <= v /\ v <= One

\* C13: with raw values below 0 or above 1 the call still returns
\* normally, every point keeps its raw values as they are, and the window
\* mean is taken over the raw values unclamped.
C13_OutOfRangeUsedAsIs ==
    Called =>
        /\ result.type = "return"
        /\ Len(result.value) = Len(data)
        /\ \A i \in 1..Len(result.value) :
               LET pt == result.value[i]
               IN /\ pt.consensus_value = InputOf(pt).consensus_value
                  /\ pt.attention_value = InputOf(pt).attention_value
                  /\ IF i - 1 < windowSize - 1
                     THEN /\ pt.ma_consensus = Num(InputOf(pt).consensus_value)
                          /\ pt.ma_attention = Num(InputOf(pt).attention_value)
                     ELSE /\ IsNum(pt.ma_consensus)
                          /\ IsNearestThousandth(pt.ma_consensus.num,
                                 WindowSum(result.value, i, "consensus_value"),
                                 windowSize)
                          /\ IsNum(pt.ma_attention)
                          /\ IsNearestThousandth(pt.ma_attention.num,
                                 WindowSum(result.value, i, "attention_value"),
                                 windowSize)

C13_Witness ==
    /\ Called /\ result.type = "return"
    /\ \E i, j \in 1..Len(result.value) :
           /\ i - 1 >= windowSize - 1
           /\ ~InUnitRange(result.value[i].consensus_value)
           /\ ~InUnitRange(result.value[i].ma_consensus.num)
           /\ result.value[i].ma_attention.num < 0
           /\ j - 1 < windowSize - 1
           /\ result.value[j].ma_consensus.num > One

\* Positions (k, j) of the points held in the cards' evaluations.
EvaluationPositions ==
    UNION {{<<k, j>> : j \in 1..Len(propositions[k].evaluations)} :
              k \in 1..Len(propositions)}

\* C15: the groups are a partition of the fetched rows by proposition_id:
\* every fetched row is in exactly one group, a group holds rows of its own
\* id only, no group is empty, and the sizes add up to the number of rows.
C15_GroupsPartitionRows ==
    DashboardRendered =>
        /\ \A i \in 1..Len(FetchedRows) :
               Cardinality({kj \in EvaluationPositions :
                   propositions[kj[1]].evaluations[kj[2]].id = FetchedRows[i].id}) = 1
        /\ \A kj \in EvaluationPositions :
               propositions[kj[1]].evaluations[kj[2]].proposition_id
                   = propositions[kj[1]].id
        /\ \A k \in 1..Len(propositions) : Len(propositions[k].evaluations) >= 1
        /\ \A k, l \in 1..Len(propositions) :
               k # l => propositions[k].id # propositions[l].id
        /\ Cardinality(EvaluationPositions) = Len(FetchedRows)

C15_Witness ==
    /\ DashboardRendered
    /\ Len(propositions) = 2
    /\ \E k \in 1..Len(propositions) : Len(propositions[k].evaluations) >= 2
    /\ Len(FetchedRows) < Len(sentimentsTable)

\* C16: a card's text is the proposition_text of the propositions row of
\* its id when there is such a row, and the id when there is none.
C16_CardText ==
    DashboardRendered =>
        \A k \in 1..Len(propositions) :
            LET rows == SelectSeq(propositionsTable,
                            LAMBDA r : r.proposition_id = propositions[k].id)
            IN propositions[k].proposition_text
                   = IF rows # <<>> THEN rows[1].proposition_text
                                    ELSE propositions[k].id

\* C19: once the dashboard is mounted, loading becomes false on every path
\* of fetchData, and once false it is never true again.
C19_LoadingEndsAndStaysFalse ==
    /\ (route = "dashboard") ~> (~dashLoading)
    /\ [](dashPc = "done" => ~dashLoading)
    /\ [][~dashLoading => ~dashLoading']_vars

C19_Witness ==
    /\ route = "dashboard" /\ dashPc = "done" /\ ~dashLoading
    /\ error = null /\ propositions # <<>>

\* ------------------------------------------------------------------------
\* Properties of the detail view's fetchData
\* ------------------------------------------------------------------------
\* The last n of rows (all of them when there are at most n).
MostRecent(rows, n) == SubSeq(rows, Len(rows) - Min(n, Len(rows)) + 1, Len(rows))

Settled(pc) == pc \in {"done", "failed", "rejected"}

\* C14: the sentiments the detail view holds are the 30 most recent daily
\* observations of the proposition (all of them when there are at most
\* 30), in ascending date order.
C14_MostRecentThirty ==
    DetailRendered => sentiments = MostRecent(OwnRows(id), QueryLimit)

\* C17: when the id changed while an earlier fetchData was in flight and
\* all runs have completed, the last of them with success, the proposition
\* and sentiments held are those of the current id.
C17_LatestIdWins ==
    (/\ Len(detailPc) >= 2
     /\ \A k \in 1..Len(detailPc) : Settled(detailPc[k])
     /\ detailPc[Len(detailPc)] = "done") =>
        /\ proposition # null
        /\ proposition.proposition_id = id
        /\ \A i \in 1..Len(sentiments) : sentiments[i].proposition_id = id

\* C18: a run of the detail view's fetchData that has come to its end has
\* left loading false, with or without a client and whatever the queries
\* answered.
C18_FinishedRunClearsLoading ==
    \A k \in 1..Len(detailPc) : Settled(detailPc[k]) => ~loading

====
